---- MODULE Spec2Model ----
(***************************************************************************)
(* HTTPCollector of zipkin-go-opentracing (src/collector-http.go): the     *)
(* batching span exporter.  Producers hand spans to the dispatch loop over *)
(* the unbuffered channel spanc; the loop appends them to the bounded      *)
(* batch buffer and launches sendNow goroutines on a count trigger or a    *)
(* time trigger; sendNow snapshots the buffer, posts it, and on success    *)
(* removes the first len(sendBatch) elements; Close asks the loop for one  *)
(* final synchronous sendNow.                                              *)
(*                                                                         *)
(* Time is counted in ticker periods (batchInterval / 10), so that         *)
(* batchInterval is TicksPerInterval units.  The wall clock is kept as a   *)
(* timer: nextSend holds c.nextSend.Sub(time.Now()), the time left until   *)
(* the deadline.                                                           *)
(*                                                                         *)
(* The specifications share every action of the program and differ in how  *)
(* time passes.  Spec makes no timing assumption: between two ticks any    *)
(* amount of time may have gone by (Elapse), as goroutine scheduling       *)
(* allows.  SpecTimed is the ideal schedule the timing claims are about:   *)
(* the ticker delivers one tick per period (AdvanceTime) and the loop,     *)
(* which is never blocked while it is Running, handles it before the next  *)
(* period elapses.  SpecFair is Spec under fair scheduling, for the claims *)
(* about what eventually happens.                                          *)
(***************************************************************************)
EXTENDS Integers, Sequences, FiniteSets

\* ---- bounds of the model ------------------------------------------------
MaxSpans == 3
NumProducers == 1
NumSlots == 2
MaxBatchSize == 3
MaxBacklog == 2
MaxTimeLaunches == 1

\* ---- program constants --------------------------------------------------
TicksPerInterval == 10
QuitCap == 1
ShutdownCap == 1

Slots == 1..NumSlots
Spans == 1..MaxSpans

VARIABLES
    batchSize, maxBacklog,      \* configuration, fixed by the options
    batch,                      \* c.batch
    nextSend,                   \* c.nextSend, measured from time.Now()
    quit,                       \* number of signals buffered in c.quit
    shutdown,                   \* contents of the buffered channel c.shutdown
    sendMutex,                  \* TRUE when c.sendMutex is locked
    loopPc,                     \* position of the loop goroutine
    waiting,                    \* go sendNow() goroutines blocked at sendMutex.Lock
    spc, sendBatch, owner,      \* sendNow invocations past sendMutex.Lock
    spanc,                      \* spans offered on c.spanc by callers blocked in Collect
    nextSpan,                   \* the next span a producer will create
    closePc,                    \* position of the caller of Close
    closeRet,                   \* value returned by Close
    tickc,                      \* number of ticks buffered in ticker.C
    collectRet,                 \* value returned by the last Collect
    accepted, delivered, attempted, evicted,
    disposed,                   \* the spans append has disposed of
    countLaunches, timeLaunches, finalFlush,
    covered,                    \* len of accepted when a sender was last started
    sinceTrigger,               \* ticker periods gone by since nextSend was last scheduled
    during                      \* buffered spans appended during the last completed transport call

config == <<batchSize, maxBacklog>>
chans == <<quit, shutdown>>
senders == <<spc, sendBatch, owner>>
prods == <<spanc, nextSpan, collectRet>>
closers == <<closePc, closeRet>>
hist == <<accepted, delivered, attempted, evicted, countLaunches, timeLaunches,
          finalFlush, covered, sinceTrigger, during, disposed>>
vars == <<config, batch, nextSend, chans, sendMutex, loopPc, waiting, senders,
          prods, closers, tickc, hist>>

Range(s) == {s[i] : i \in 1..Len(s)}

\* ---- pure pieces of the code --------------------------------------------

\* c.batch[n:]
SliceFrom(b, n) == SubSeq(b, n + 1, Len(b))

\* number of spans append disposes of, given the buffer after the tail append
Dispose(b) == IF Len(b) > maxBacklog THEN Len(b) - maxBacklog ELSE 0

\* variant of append without the backlog trim
AppendSpanNoEvict(b, span) == Append(b, span)

\* variant of append that sheds the arriving span instead of the oldest
AppendSpanDropNewest(b, span) == IF Len(b) >= maxBacklog THEN b ELSE Append(b, span)

\* the buffer after append(span)
AppendSpan(b, span) ==
    LET b1 == Append(b, span)
    IN  SliceFrom(b1, Dispose(b1))

\* variant of the removal that is one element short
RemoveSentKeepLast(b, sent) == SliceFrom(b, Len(sent) - 1)

\* c.batch[len(sendBatch):]
RemoveSent(b, sent) == SliceFrom(b, Len(sent))

\* variant of the count trigger with > for >=
CountTriggerStrict(n) == n > batchSize

\* currentBatchSize >= c.batchSize
CountTrigger(n) == n >= batchSize

\* variant of the rescheduling that is one ticker period short
ScheduleNextSendShort == TicksPerInterval - 1

\* time.Now().Add(c.batchInterval)
ScheduleNextSend == TicksPerInterval

\* variant of the time trigger that lets one more tick go by
DeadlinePassedLate == nextSend < -1

\* time.Now().After(c.nextSend)
DeadlinePassed == nextSend < 0

\* variant of sendNow without the send-mutex
SendMutexIgnored == TRUE

\* sync.Mutex.Lock on sendMutex returns only when the mutex is free
SendMutexFree == ~sendMutex

\* the sendNow invocations past the send-mutex
Inside == {s \in Slots : spc[s] # "idle"}

\* variant of the loop that runs its senders inline instead of with go
AtSelectSendsInline == loopPc = "running" /\ waiting = 0 /\ Inside = {}

\* the loop goroutine is at its select: senders are started with go, so the
\* loop is back there whether or not a send is in progress
AtSelect == loopPc = "running"

FreeSlot == CHOOSE s \in Slots : spc[s] = "idle" /\ \A t \in Slots : spc[t] = "idle" => s <= t

\* ---- initial state: NewHTTPCollector -------------------------------------
Init ==
    /\ batchSize \in 1..MaxBatchSize
    /\ maxBacklog \in 1..MaxBacklog
    /\ batch = <<>>
    /\ nextSend = TicksPerInterval
    /\ tickc = 0
    /\ quit = 0
    /\ shutdown = <<>>
    /\ sendMutex = FALSE
    /\ loopPc = "running"
    /\ waiting = 0
    /\ spc = [s \in Slots |-> "idle"]
    /\ sendBatch = [s \in Slots |-> <<>>]
    /\ owner = [s \in Slots |-> "none"]
    /\ spanc = {}
    /\ nextSpan = 1
    /\ collectRet = "none"
    /\ closePc = "idle"
    /\ closeRet = "none"
    /\ accepted = <<>>
    /\ delivered = <<>>
    /\ attempted = {}
    /\ evicted = 0
    /\ countLaunches = 0
    /\ timeLaunches = 0
    /\ finalFlush = "none"
    /\ covered = 0
    /\ during = {}
    /\ disposed = {}
    /\ sinceTrigger = 0

\* ---- producers ------------------------------------------------------------

\* Collect(s): the caller reaches c.spanc <- s and blocks there
CollectCall ==
    /\ Cardinality(spanc) < NumProducers
    /\ nextSpan <= MaxSpans
    /\ spanc' = spanc \cup {nextSpan}
    /\ nextSpan' = nextSpan + 1
    /\ UNCHANGED <<config, batch, nextSend, chans, sendMutex, loopPc, waiting,
                   senders, collectRet, closers, tickc, hist>>

\* ---- the dispatch loop ----------------------------------------------------

\* case span := <-c.spanc: the hand-off completes and that Collect returns nil;
\* the loop appends and, on the count trigger, reschedules and starts a sender
LoopSpan(span) ==
    /\ AtSelect
    /\ span \in spanc
    /\ LET b1 == Append(batch, span)
           newBatch == AppendSpan(batch, span)
           fire == CountTrigger(Len(newBatch))
       IN  /\ batch' = newBatch
           /\ evicted' = evicted + Dispose(b1)
           /\ disposed' = disposed \cup Range(SubSeq(b1, 1, Dispose(b1)))
           /\ accepted' = Append(accepted, span)
           /\ nextSend' = IF fire THEN ScheduleNextSend ELSE nextSend
           /\ waiting' = IF fire THEN waiting + 1 ELSE waiting
           /\ countLaunches' = IF fire THEN countLaunches + 1 ELSE countLaunches
           /\ covered' = IF fire THEN Len(accepted) + 1 ELSE covered
           /\ sinceTrigger' = IF fire THEN 0 ELSE sinceTrigger
    /\ spanc' = spanc \ {span}
    /\ collectRet' = "nil"
    /\ UNCHANGED <<config, chans, sendMutex, loopPc, senders, nextSpan, closers,
                   tickc, delivered, attempted, timeLaunches, finalFlush, during>>

\* case <-tickc
LoopTick ==
    /\ AtSelect
    /\ tickc = 1
    /\ tickc' = 0
    /\ nextSend' = IF DeadlinePassed THEN ScheduleNextSend ELSE nextSend
    /\ waiting' = IF DeadlinePassed THEN waiting + 1 ELSE waiting
    /\ timeLaunches' = IF DeadlinePassed THEN timeLaunches + 1 ELSE timeLaunches
    /\ covered' = IF DeadlinePassed THEN Len(accepted) ELSE covered
    /\ sinceTrigger' = IF DeadlinePassed THEN 0 ELSE sinceTrigger
    /\ UNCHANGED <<config, batch, chans, sendMutex, loopPc, senders, prods,
                   closers, accepted, delivered, attempted, evicted,
                   countLaunches, finalFlush, during, disposed>>

\* variant of the shutdown case without the final flush
LoopQuitNoFlush ==
    /\ AtSelect
    /\ quit > 0
    /\ quit' = quit - 1
    /\ loopPc' = "acking"
    /\ UNCHANGED <<config, batch, nextSend, shutdown, sendMutex, waiting, senders,
                   prods, closers, tickc, hist>>

\* case <-c.quit: the loop enters the synchronous c.sendNow()
LoopQuit ==
    /\ AtSelect
    /\ quit > 0
    /\ quit' = quit - 1
    /\ loopPc' = "drain"
    /\ UNCHANGED <<config, batch, nextSend, shutdown, sendMutex, waiting, senders,
                   prods, closers, tickc, hist>>

\* variant of the shutdown case that returns without the acknowledgement
LoopShutdownNoAck ==
    /\ loopPc = "acking"
    /\ loopPc' = "stopped"
    /\ UNCHANGED <<config, batch, nextSend, chans, sendMutex, waiting, senders,
                   prods, closers, tickc, hist>>

\* variant of the shutdown case that leaves the select with break and loops on
LoopShutdownBreak ==
    /\ loopPc = "acking"
    /\ Len(shutdown) < ShutdownCap
    /\ shutdown' = Append(shutdown, "nil")
    /\ loopPc' = "running"
    /\ UNCHANGED <<config, batch, nextSend, quit, sendMutex, waiting, senders,
                   prods, closers, tickc, hist>>

\* c.shutdown <- err; return (err is the loop's var err error, never assigned)
LoopShutdown ==
    /\ loopPc = "acking"
    /\ Len(shutdown) < ShutdownCap
    /\ shutdown' = Append(shutdown, "nil")
    /\ loopPc' = "stopped"
    /\ UNCHANGED <<config, batch, nextSend, quit, sendMutex, waiting, senders,
                   prods, closers, tickc, hist>>

\* ---- sendNow ----------------------------------------------------------------

\* c.sendMutex.Lock() by a goroutine started with go c.sendNow()
SendLockAsync ==
    /\ waiting > 0
    /\ SendMutexFree
    /\ \E s \in Slots : spc[s] = "idle"
    /\ waiting' = waiting - 1
    /\ sendMutex' = TRUE
    /\ spc' = [spc EXCEPT ![FreeSlot] = "snap"]
    /\ owner' = [owner EXCEPT ![FreeSlot] = "async"]
    /\ UNCHANGED <<config, batch, nextSend, chans, loopPc, sendBatch, prods,
                   closers, tickc, hist>>

\* c.sendMutex.Lock() by the loop's own final c.sendNow()
SendLockLoop ==
    /\ loopPc = "drain"
    /\ SendMutexFree
    /\ \E s \in Slots : spc[s] = "idle"
    /\ loopPc' = "flush"
    /\ sendMutex' = TRUE
    /\ spc' = [spc EXCEPT ![FreeSlot] = "snap"]
    /\ owner' = [owner EXCEPT ![FreeSlot] = "loop"]
    /\ UNCHANGED <<config, batch, nextSend, chans, waiting, sendBatch, prods,
                   closers, tickc, hist>>

\* return from sendNow: the deferred c.sendMutex.Unlock(); the loop goes on to
\* its acknowledgement when the invocation was its own
Return(s, outcome) ==
    /\ spc' = [spc EXCEPT ![s] = "idle"]
    /\ sendBatch' = [sendBatch EXCEPT ![s] = <<>>]
    /\ owner' = [owner EXCEPT ![s] = "none"]
    /\ sendMutex' = FALSE
    /\ loopPc' = IF owner[s] = "loop" THEN "acking" ELSE loopPc
    /\ finalFlush' = IF owner[s] = "loop" THEN outcome ELSE finalFlush

\* variant of the snapshot without the return on an empty batch
SnapshotNoEmptyCheck(s) ==
    /\ spc[s] = "snap"
    /\ spc' = [spc EXCEPT ![s] = "send"]
    /\ sendBatch' = [sendBatch EXCEPT ![s] = batch]
    /\ attempted' = attempted \cup Range(batch)
    /\ UNCHANGED <<config, batch, nextSend, chans, sendMutex, loopPc, waiting, owner,
                   prods, closers, tickc, accepted, delivered, evicted, countLaunches,
                   timeLaunches, finalFlush, covered, sinceTrigger, during, disposed>>

\* variant of the snapshot that takes at most batchSize spans
SnapshotUpToBatchSize(s) ==
    /\ spc[s] = "snap"
    /\ IF Len(batch) = 0
       THEN /\ Return(s, "empty")
            /\ UNCHANGED attempted
       ELSE LET n == IF Len(batch) < batchSize THEN Len(batch) ELSE batchSize
            IN  /\ spc' = [spc EXCEPT ![s] = "send"]
                /\ sendBatch' = [sendBatch EXCEPT ![s] = SubSeq(batch, 1, n)]
                /\ attempted' = attempted \cup Range(SubSeq(batch, 1, n))
                /\ UNCHANGED <<owner, sendMutex, loopPc, finalFlush>>
    /\ UNCHANGED <<config, batch, nextSend, chans, waiting, prods, closers, tickc,
                   accepted, delivered, evicted, countLaunches, timeLaunches, covered,
                   sinceTrigger, during, disposed>>

\* sendBatch := c.batch[:] under batchMutex; return when it is empty,
\* else enter c.send(sendBatch)
Snapshot(s) ==
    /\ spc[s] = "snap"
    /\ IF Len(batch) = 0
       THEN /\ Return(s, "empty")
            /\ UNCHANGED attempted
       ELSE /\ spc' = [spc EXCEPT ![s] = "send"]
            /\ sendBatch' = [sendBatch EXCEPT ![s] = batch]
            /\ attempted' = attempted \cup Range(batch)
            /\ UNCHANGED <<owner, sendMutex, loopPc, finalFlush>>
    /\ UNCHANGED <<config, batch, nextSend, chans, waiting, prods, closers, tickc,
                   accepted, delivered, evicted, countLaunches, timeLaunches, covered,
                   sinceTrigger, during, disposed>>

\* c.send returns nil
SendOk(s) ==
    /\ spc[s] = "send"
    /\ spc' = [spc EXCEPT ![s] = "remove"]
    /\ delivered' = delivered \o sendBatch[s]
    /\ during' = Range(batch) \ Range(sendBatch[s])
    /\ UNCHANGED <<config, batch, nextSend, chans, sendMutex, loopPc, waiting,
                   sendBatch, owner, prods, closers, tickc, accepted, attempted,
                   evicted, countLaunches, timeLaunches, finalFlush, covered,
                   sinceTrigger, disposed>>

\* variant of the error branch that removes the batch as on success
SendFailDropsBatch(s) ==
    /\ spc[s] = "send"
    /\ batch' = RemoveSent(batch, sendBatch[s])
    /\ Return(s, "fail")
    /\ during' = Range(batch) \ Range(sendBatch[s])
    /\ UNCHANGED <<config, nextSend, chans, waiting, prods, closers, tickc,
                   accepted, delivered, attempted, evicted, countLaunches,
                   timeLaunches, covered, sinceTrigger, disposed>>

\* c.send returns an error: it is logged and sendNow returns
SendFail(s) ==
    /\ spc[s] = "send"
    /\ Return(s, "fail")
    /\ during' = Range(batch) \ Range(sendBatch[s])
    /\ UNCHANGED <<config, batch, nextSend, chans, waiting, prods, closers, tickc,
                   accepted, delivered, attempted, evicted, countLaunches,
                   timeLaunches, covered, sinceTrigger, disposed>>

\* c.batch = c.batch[len(sendBatch):] under batchMutex, then return
Remove(s) ==
    /\ spc[s] = "remove"
    /\ batch' = RemoveSent(batch, sendBatch[s])
    /\ Return(s, "ok")
    /\ UNCHANGED <<config, nextSend, chans, waiting, prods, closers, tickc,
                   accepted, delivered, attempted, evicted, countLaunches,
                   timeLaunches, covered, sinceTrigger, during, disposed>>

\* ---- Close --------------------------------------------------------------------

\* Close is the one-shot shutdown request: it is called at most once.

\* c.quit <- struct{}{}
CloseCall ==
    /\ closePc = "idle"
    /\ quit < QuitCap
    /\ quit' = quit + 1
    /\ closePc' = "wait"
    /\ UNCHANGED <<config, batch, nextSend, shutdown, sendMutex, loopPc, waiting,
                   senders, prods, closeRet, tickc, hist>>

\* return <-c.shutdown
CloseReturn ==
    /\ closePc = "wait"
    /\ Len(shutdown) > 0
    /\ closeRet' = Head(shutdown)
    /\ shutdown' = Tail(shutdown)
    /\ closePc' = "done"
    /\ UNCHANGED <<config, batch, nextSend, quit, sendMutex, loopPc, waiting,
                   senders, prods, tickc, hist>>

\* ---- time -----------------------------------------------------------------------

\* Once the loop has left its select neither the clock nor the ticker is read
\* again, so time is followed only while the loop is Running.

\* one ticker period elapses and the ticker puts a tick into its one-slot
\* channel
AdvanceTime ==
    /\ loopPc = "running"
    /\ tickc = 0
    /\ timeLaunches < MaxTimeLaunches \/ nextSend > 0
    /\ nextSend' = nextSend - 1
    /\ sinceTrigger' = sinceTrigger + 1
    /\ tickc' = 1
    /\ UNCHANGED <<config, batch, chans, sendMutex, loopPc, waiting, senders,
                   prods, closers, accepted, delivered, attempted, evicted,
                   countLaunches, timeLaunches, finalFlush, covered, during,
                   disposed>>

\* the ticker puts a tick into its channel after an arbitrary delay: the
\* deadline has passed by then (late) or it has not
Elapse ==
    /\ loopPc = "running"
    /\ tickc = 0
    /\ tickc' = 1
    /\ \E late \in BOOLEAN :
          /\ late => timeLaunches < MaxTimeLaunches
          /\ nextSend' = IF late THEN -1 ELSE nextSend
    /\ UNCHANGED <<config, batch, chans, sendMutex, loopPc, waiting, senders,
                   prods, closers, hist>>

Program ==
    \/ CollectCall
    \/ \E span \in Spans : LoopSpan(span)
    \/ LoopTick
    \/ LoopQuit
    \/ LoopShutdown
    \/ SendLockAsync
    \/ SendLockLoop
    \/ \E s \in Slots : Snapshot(s)
    \/ \E s \in Slots : SendOk(s)
    \/ \E s \in Slots : SendFail(s)
    \/ \E s \in Slots : Remove(s)
    \/ CloseCall
    \/ CloseReturn

Next == Program \/ Elapse

NextTimed == Program \/ AdvanceTime

Spec == Init /\ [][Next]_vars

\* the ideal schedule is followed for the widest backlog, with the count
\* threshold within its reach and beyond it
InitTimed == Init /\ maxBacklog = MaxBacklog /\ batchSize >= MaxBacklog

SpecTimed == InitTimed /\ [][NextTimed]_vars

\* Fair scheduling: a goroutine that can take a step eventually takes it, the
\* loop's select eventually takes a case that stays ready, sync.Mutex hands
\* the send-mutex to every waiter in the end (its starvation mode), and every
\* transport call returns.  Callers are not obliged to call Collect or Close,
\* and no assumption is made on the time that elapses.
Fairness ==
    /\ WF_vars(\E span \in Spans : LoopSpan(span))
    /\ WF_vars(LoopTick)
    /\ WF_vars(LoopQuit)
    /\ WF_vars(LoopShutdown)
    /\ SF_vars(SendLockAsync)
    /\ SF_vars(SendLockLoop)
    /\ \A s \in Slots : WF_vars(Snapshot(s))
    /\ \A s \in Slots : WF_vars(SendOk(s) \/ SendFail(s))
    /\ \A s \in Slots : WF_vars(Remove(s))
    /\ WF_vars(CloseReturn)

\* the fair schedule is followed for the configuration in which the count
\* threshold is the whole backlog
InitFair == Init /\ maxBacklog = MaxBacklog /\ batchSize = MaxBacklog

SpecFair == InitFair /\ [][Next]_vars /\ Fairness

TypeOK ==
    /\ Len(batch) <= MaxSpans
    /\ waiting \in 0..(MaxSpans + MaxTimeLaunches)
    /\ nextSend \in -1..TicksPerInterval
    /\ loopPc \in {"running", "drain", "flush", "acking", "stopped"}
    /\ \A s \in Slots : spc[s] \in {"idle", "snap", "send", "remove"}

\* ---- properties ------------------------------------------------------------

IsPrefix(s, r) == Len(s) <= Len(r) /\ SubSeq(r, 1, Len(s)) = s

LastN(s, n) == SubSeq(s, Len(s) - n + 1, Len(s))

Sending == {s \in Slots : spc[s] = "send"}

\* C1: in every reachable state the batch buffer holds at most maxBacklog
\* spans, whatever appends and prefix removals have been interleaved.
C1_BacklogBound == Len(batch) <= maxBacklog

\* an append has overflowed and evicted, and the buffer sits at its bound
C1_Witness == evicted > 0 /\ Len(batch) = maxBacklog /\ delivered # <<>>

\* C2: as long as nothing has been evicted, the batches of the successful
\* sends, concatenated in completion order, are a prefix of the accepted
\* sequence, and are the whole of it when the buffer is empty and no
\* sendNow is in progress.
C2_Ordering ==
    evicted = 0 =>
        /\ IsPrefix(delivered, accepted)
        /\ (batch = <<>> /\ Inside = {}) => delivered = accepted

\* every span accepted was delivered, over more than one successful send
C2_Witness ==
    /\ evicted = 0
    /\ Len(accepted) = MaxSpans
    /\ delivered = accepted
    /\ batch = <<>>
    /\ Inside = {}
    /\ countLaunches >= 2

\* C3: at most one sendNow invocation is past sendMutex.Lock, hence at most
\* one transport call is in flight.
C3_OneSender == Cardinality(Inside) <= 1 /\ Cardinality(Sending) <= 1

\* a transport call is in flight while a count-triggered or time-triggered
\* sender and the shutdown flush are all held at the send-mutex
C3_Witness ==
    /\ Sending # {}
    /\ waiting >= 1
    /\ loopPc = "drain"
    /\ countLaunches >= 1
    /\ timeLaunches >= 1

\* C4: Close returns nil only if the final flush succeeded or had nothing to
\* send; a failed final transport call makes Close return an error.
C4_CloseReturnsFlushOutcome ==
    closeRet = "nil" => finalFlush \in {"ok", "empty"}

\* C5 as stated: once Close has returned after fewer than batchSize spans were
\* accepted, every accepted span has been part of a transport call.
C5_DrainOnCloseAnyBacklog ==
    (closePc = "done" /\ Len(accepted) < batchSize) =>
        Range(accepted) \subseteq attempted

\* C5 amended: once Close has returned after N spans were accepted, with
\* N < batchSize and N <= maxBacklog, every accepted span has been part of a
\* transport call.
C5_DrainOnClose ==
    (closePc = "done" /\ Len(accepted) < batchSize /\ Len(accepted) <= maxBacklog) =>
        Range(accepted) \subseteq attempted

\* Close has returned after two spans below the count threshold were buffered
\* and handed to the final flush, whose transport call failed
C5_Witness ==
    /\ closePc = "done"
    /\ Len(accepted) = 2
    /\ Len(accepted) < batchSize
    /\ Len(accepted) <= maxBacklog
    /\ timeLaunches = 0
    /\ finalFlush = "fail"

\* C6: while no send has succeeded, once maxBacklog + k spans have been
\* appended the buffer is the last maxBacklog of them in append order and the
\* eviction counts logged sum to k.
C6_Eviction ==
    (delivered = <<>> /\ Len(accepted) >= maxBacklog) =>
        /\ batch = LastN(accepted, maxBacklog)
        /\ evicted = Len(accepted) - maxBacklog

\* two spans were evicted by two separate appends
C6_Witness ==
    /\ delivered = <<>>
    /\ Len(accepted) = maxBacklog + 2
    /\ evicted = 2

\* C7: a sendNow whose transport call fails leaves the buffer as it is; while
\* the call is in flight the buffer differs from the snapshot only by what the
\* loop evicted at the head and appended at the tail; Collect returns nil.
C7_FailedSendKeepsBuffer ==
    /\ [][\A s \in Slots : (spc[s] = "send" /\ spc'[s] = "idle") => batch' = batch]_vars
    /\ [](\A s \in Sending :
            \E k \in 0..Len(sendBatch[s]) : IsPrefix(SliceFrom(sendBatch[s], k), batch))
    /\ [](collectRet \in {"none", "nil"})

\* the final flush failed and everything accepted is still buffered
C7_Witness ==
    /\ finalFlush = "fail"
    /\ batch # <<>>
    /\ batch = accepted
    /\ collectRet = "nil"

\* C8 as stated: with no time trigger fired, fewer than batchSize appends start
\* no sender, and exactly batchSize appends start exactly one, whose batch is
\* those spans in order.
C8_CountTriggerAnyBacklog ==
    timeLaunches = 0 =>
        /\ Len(accepted) < batchSize =>
              countLaunches = 0 /\ (loopPc = "running" => waiting = 0 /\ Inside = {})
        /\ Len(accepted) = batchSize =>
              /\ countLaunches = 1
              /\ \A s \in Slots : spc[s] \in {"send", "remove"} => sendBatch[s] = accepted

\* C8 amended: the same, for a configuration with maxBacklog >= batchSize.
C8_CountTrigger ==
    (timeLaunches = 0 /\ maxBacklog >= batchSize) =>
        /\ Len(accepted) < batchSize =>
              countLaunches = 0 /\ (loopPc = "running" => waiting = 0 /\ Inside = {})
        /\ Len(accepted) = batchSize =>
              /\ countLaunches = 1
              /\ \A s \in Slots : spc[s] \in {"send", "remove"} => sendBatch[s] = accepted

\* the second of two appends started the one sender, now posting both spans
C8_Witness ==
    /\ timeLaunches = 0
    /\ batchSize = 2
    /\ Len(accepted) = 2
    /\ countLaunches = 1
    /\ loopPc = "running"
    /\ \E s \in Sending : sendBatch[s] = accepted

\* C9: on the ideal schedule the loop never leaves the deadline unanswered for
\* more than one tick: a time-triggered sender is started no later than
\* batchInterval plus one tick after the deadline was scheduled, and every
\* buffered span accepted before a sender was started is in an attempted batch
\* or has a started sender still to snapshot it.
C9_TimeTrigger ==
    loopPc = "running" =>
        /\ nextSend >= -1
        /\ nextSend = -1 => tickc = 1
        /\ \A i \in 1..covered :
              \/ accepted[i] \in attempted
              \/ accepted[i] \notin Range(batch)
              \/ waiting > 0
              \/ \E s \in Slots : spc[s] = "snap"

\* one span, below the count threshold, is being posted by the sender that the
\* time trigger started at this very instant
C9_Witness ==
    /\ Len(accepted) = 1
    /\ countLaunches = 0
    /\ timeLaunches = 1
    /\ covered = 1
    /\ nextSend = TicksPerInterval
    /\ accepted[1] \in attempted
    /\ loopPc = "running"

C11_CloseTerminates ==
    (closePc = "wait") ~> (closePc = "done" /\ finalFlush # "none" /\ loopPc = "stopped")

\* Close has returned after two senders had been started ahead of the final
\* flush, which succeeded
C11_Witness ==
    /\ closePc = "done"
    /\ loopPc = "stopped"
    /\ countLaunches + timeLaunches >= 2
    /\ finalFlush = "ok"

\* C12: whenever a sendNow, after a successful transport call, removes the
\* first len(sendBatch) elements of the buffer, the elements removed are the
\* spans of sendBatch, whatever appends and evictions came in between.
C12_RemovesWhatWasSent ==
    [][\A s \in Slots :
          (spc[s] = "remove" /\ spc'[s] = "idle") =>
              /\ batch' = SliceFrom(batch, Len(sendBatch[s]))
              /\ SubSeq(batch, 1, Len(sendBatch[s])) = sendBatch[s]]_vars

\* C13: at most one transport call is in flight at a time, and, as long as
\* nothing has been evicted, the spans that were appended while a transport
\* call was in flight are all in the batch of the next transport call to start
\* after it has completed.
C13_SerializedAndCarriedOver ==
    /\ [](Cardinality(Sending) <= 1)
    /\ [][\A s \in Slots :
            (spc[s] = "snap" /\ spc'[s] = "send" /\ evicted = 0) =>
                during \subseteq Range(sendBatch'[s])]_vars

\* a second trigger came while the first transport call was in flight; its
\* sender waited, and now posts the span appended during that call
C13_Witness ==
    /\ evicted = 0
    /\ countLaunches >= 2
    /\ delivered # <<>>
    /\ during # {}
    /\ \E s \in Sending : owner[s] = "async" /\ during \subseteq Range(sendBatch[s])

\* C14: every trigger, by count or by time, sets nextSend to now plus
\* batchInterval as it starts its sender, so that a time-triggered sender is
\* started only when more than batchInterval has gone by since the last
\* trigger.
C14_NoEarlyTimeTrigger ==
    /\ [][(countLaunches' # countLaunches \/ timeLaunches' # timeLaunches) =>
            nextSend' = TicksPerInterval]_vars
    /\ [][timeLaunches' # timeLaunches => sinceTrigger > TicksPerInterval]_vars

\* a count trigger fired; exactly batchInterval later the loop has handled the
\* tick without starting a sender, although spans are buffered
C14_Witness ==
    /\ countLaunches = 1
    /\ timeLaunches = 0
    /\ sinceTrigger = TicksPerInterval
    /\ tickc = 0
    /\ loopPc = "running"
    /\ batch # <<>>

LoopOrder ==
    {<<"running", "drain">>, <<"drain", "flush">>, <<"flush", "acking">>,
     <<"acking", "stopped">>}

\* C15: the loop goes Running -> Draining -> Stopped and never back: once it
\* has consumed the shutdown signal it accepts no further span, runs exactly
\* one sendNow of its own, then acknowledges on the shutdown channel and
\* terminates.
C15_Lifecycle ==
    /\ [][loopPc' # loopPc => <<loopPc, loopPc'>> \in LoopOrder]_vars
    /\ [][loopPc # "running" => accepted' = accepted /\ spanc \subseteq spanc']_vars
    /\ [][finalFlush # "none" => finalFlush' = finalFlush]_vars
    /\ [](Cardinality({s \in Slots : owner[s] = "loop"}) =
             IF loopPc = "flush" THEN 1 ELSE 0)
    /\ [](finalFlush # "none" <=> loopPc \in {"acking", "stopped"})
    /\ [](loopPc = "stopped" => shutdown # <<>> \/ closePc = "done")

\* the loop has terminated after its final flush and acknowledgement, leaving
\* a caller of Collect that it never accepted
C15_Witness ==
    /\ loopPc = "stopped"
    /\ finalFlush = "ok"
    /\ closePc = "done"
    /\ spanc # {}
    /\ Len(accepted) >= 1

\* C16: a sendNow that snapshots an empty buffer returns without a transport
\* call and leaves the buffer as it is; no transport call carries an empty
\* batch.
C16_EmptySnapshotAborts ==
    /\ [][\A s \in Slots :
            (spc[s] = "snap" /\ spc'[s] # "snap" /\ batch = <<>>) =>
                /\ spc'[s] = "idle"
                /\ batch' = batch
                /\ attempted' = attempted
                /\ delivered' = delivered]_vars
    /\ [](\A s \in Slots : spc[s] \in {"send", "remove"} => sendBatch[s] # <<>>)

\* every span accepted was delivered by an earlier sender, and the final flush
\* found the buffer empty
C16_Witness ==
    /\ finalFlush = "empty"
    /\ accepted # <<>>
    /\ delivered = accepted
    /\ batch = <<>>

\* C17: whenever no sendNow is between its snapshot and its removal, the
\* spans accepted are as many as those delivered by successful sends plus
\* those logged as disposed of plus those buffered, and every accepted span
\* has been delivered, has been disposed of by append, or is buffered.
C17_SpanAccounting ==
    (\A s \in Slots : spc[s] \notin {"send", "remove"}) =>
        /\ Len(accepted) = Len(delivered) + evicted + Len(batch)
        /\ Range(accepted) \subseteq Range(delivered) \cup disposed \cup Range(batch)

\* C18: no span is in the batches of two successful sends: each accepted span
\* is delivered at most once, whatever appends, evictions, triggers and the
\* shutdown flush are interleaved.
C18_DeliveredOnce ==
    \A i, j \in 1..Len(delivered) : delivered[i] = delivered[j] => i = j

\* with a one-span buffer two sends have succeeded, the later one being the
\* shutdown flush, and an append has evicted in between
C18_Witness ==
    /\ maxBacklog = 1
    /\ evicted > 0
    /\ Len(delivered) >= 2
    /\ finalFlush = "ok"

\* C19: once Close has returned no transport call is started: a sender that
\* takes its snapshot after that finds nothing to send.
C19_NoSendAfterClose ==
    [][closePc = "done" => \A s \in Slots : ~(spc[s] = "snap" /\ spc'[s] = "send")]_vars

\* C20: under fair scheduling every call of Collect returns, whenever it is
\* made, concurrently with Close and after Close included: a span offered on
\* spanc is eventually taken.
C20_CollectReturns ==
    \A span \in Spans : (span \in spanc) ~> (span \notin spanc)

====
